---- MODULE Spec2Model ----
(***************************************************************************)
(* StudyGenie spaced-repetition scheduler (SM-2) and the flashcard store   *)
(* around it.                                                              *)
(*                                                                         *)
(* Numbers.  ease_factor is a Python float; every constant of the update   *)
(* formula is a multiple of 0.01, so the model keeps the ease factor as an *)
(* integer number of hundredths (2.5 is 250) and computes the formula and  *)
(* the ceiling exactly in that fixed point.  Binary rounding of the float  *)
(* product is not modelled.                                                *)
(*                                                                         *)
(* Time.  datetime.utcnow() is the variable now, counted in ticks;         *)
(* timedelta(days=n) is n * TicksPerDay ticks.                             *)
(***************************************************************************)
EXTENDS Integers, Sequences, FiniteSets, TLC

VARIABLES
    cards,      \* the flashcards table: cards[id] is the row of flashcard id
    reviews,    \* the flashcard_reviews table, in insertion order
    now,        \* the clock datetime.utcnow() reads
    response,   \* what the most recent call returned or raised
    user_progress,  \* the user_progress table: the row of (user_id, subject)
    study_sessions  \* the study_sessions table, in insertion order

vars == <<cards, reviews, now, response, user_progress, study_sessions>>

\* the tables of the progress API, which the flashcard handlers do not touch
study == <<user_progress, study_sessions>>

----------------------------------------------------------------------------
(* Bounds of the model *)

MaxCards == 2
MaxUsers == 2
MaxReviews == 1
MaxTime == 4
TicksPerDay == 2
EaseStep == 4
MaxEaseSteps == 33
MaxRepetitions0 == 2
MaxInterval0 == 6
MaxNow0 == 1

(* Program constants *)

Scale == 100
MinEase == 130
DefaultEase == 250
DefaultInterval == 1
DefaultRepetitions == 0
PassQuality == 3
MaxQuality == 5
FirstInterval == 1
SecondInterval == 6
FailInterval == 1
DueLimit == 20
NULL == -1

Users == 1..MaxUsers
CardIds == 1..MaxCards
ValidQualities == 0..MaxQuality
AnyQuality == -1..(MaxQuality + 1)

Max(a, b) == IF a >= b THEN a ELSE b

\* math.ceil(n / d) for d > 0
CeilDiv(n, d) == IF n % d = 0 THEN n \div d ELSE (n \div d) + 1

Days(n) == n * TicksPerDay

----------------------------------------------------------------------------
(* SpacedRepetitionService.calculate_next_review *)

\* 0.1 - (5 - quality) * (0.08 + (5 - quality) * 0.02), in hundredths
EaseDelta(quality) ==
    10 - (MaxQuality - quality) * (8 + (MaxQuality - quality) * 2)

\* faulty variant: the floor of 1.3 is left out
NewEaseFactorNoFloor(quality, ease_factor) ==
    ease_factor + EaseDelta(quality)

\* faulty variant: the ease factor is updated on the pass branch only
NewEaseFactorPassOnly(quality, ease_factor) ==
    IF quality < 3
    THEN ease_factor
    ELSE Max(MinEase, ease_factor + EaseDelta(quality))

NewEaseFactor(quality, ease_factor) ==
    Max(MinEase, ease_factor + EaseDelta(quality))

\* faulty variant: the pass threshold is off by one (quality < 2)
NewRepetitionsLowThreshold(quality, repetitions) ==
    IF quality < PassQuality - 1 THEN 0 ELSE repetitions + 1

\* faulty variant: a failed review keeps the repetition count
NewRepetitionsKeptOnFail(quality, repetitions) ==
    IF quality < PassQuality THEN repetitions ELSE repetitions + 1

\* faulty variant: a passing review restarts the count at 1
NewRepetitionsRestart(quality, repetitions) ==
    IF quality < PassQuality THEN 0 ELSE 1

NewRepetitions(quality, repetitions) ==
    IF quality < PassQuality THEN 0 ELSE repetitions + 1

\* faulty variant: the second repetition is given a month
NewIntervalLongSecond(quality, repetitions, ease_factor, interval) ==
    IF quality < PassQuality
    THEN FailInterval
    ELSE IF repetitions + 1 = 1 THEN FirstInterval
         ELSE IF repetitions + 1 = 2 THEN 30
         ELSE CeilDiv(interval * NewEaseFactor(quality, ease_factor), Scale)

\* faulty variant: the second repetition has no fixed interval
NewIntervalNoSecond(quality, repetitions, ease_factor, interval) ==
    IF quality < PassQuality
    THEN FailInterval
    ELSE IF repetitions + 1 = 1 THEN FirstInterval
         ELSE CeilDiv(interval * NewEaseFactor(quality, ease_factor), Scale)

\* faulty variant: the interval grows by the ease factor before its update
NewIntervalOldEase(quality, repetitions, ease_factor, interval) ==
    IF quality < PassQuality
    THEN FailInterval
    ELSE IF repetitions + 1 = 1 THEN FirstInterval
         ELSE IF repetitions + 1 = 2 THEN SecondInterval
         ELSE CeilDiv(interval * ease_factor, Scale)

\* faulty variant: the ease factor is taken in tenths of its value
NewIntervalShrinks(quality, repetitions, ease_factor, interval) ==
    IF quality < PassQuality
    THEN FailInterval
    ELSE IF repetitions + 1 = 1 THEN FirstInterval
         ELSE IF repetitions + 1 = 2 THEN SecondInterval
         ELSE (interval * NewEaseFactor(quality, ease_factor))
                  \div (10 * Scale)

\* faulty variant: a failed review keeps the interval the card had
NewIntervalKeptOnFail(quality, repetitions, ease_factor, interval) ==
    IF quality < PassQuality
    THEN interval
    ELSE IF repetitions + 1 = 1 THEN FirstInterval
         ELSE IF repetitions + 1 = 2 THEN SecondInterval
         ELSE CeilDiv(interval * NewEaseFactor(quality, ease_factor), Scale)

NewInterval(quality, repetitions, ease_factor, interval) ==
    IF quality < PassQuality
    THEN FailInterval
    ELSE IF repetitions + 1 = 1 THEN FirstInterval
         ELSE IF repetitions + 1 = 2 THEN SecondInterval
         ELSE CeilDiv(interval * NewEaseFactor(quality, ease_factor), Scale)

\* faulty variant: the card is due again at the time of the review
NextReviewDateAtOnce(utcnow, new_interval) == utcnow

\* faulty variant: the interval is added as if it were in clock ticks, not days
NextReviewDateTicks(utcnow, new_interval) == utcnow + new_interval

\* faulty variant: the review date is left unset
NextReviewDateUnset(utcnow, new_interval) == NULL

NextReviewDate(utcnow, new_interval) == utcnow + Days(new_interval)

\* the returned tuple, with the clock value the call read
CalculateNextReview(quality, repetitions, ease_factor, interval, utcnow) ==
    [ next_review_date |->
          NextReviewDate(utcnow,
                         NewInterval(quality, repetitions, ease_factor, interval)),
      new_repetitions  |-> NewRepetitions(quality, repetitions),
      new_ease_factor  |-> NewEaseFactor(quality, ease_factor),
      new_interval     |->
          NewInterval(quality, repetitions, ease_factor, interval) ]

----------------------------------------------------------------------------
(* The tables *)

\* faulty variant: a new card is stored with next_review unset
NewFlashcardUnset(u, t) ==
    [ user_id     |-> u,
      ease_factor |-> DefaultEase,
      interval    |-> DefaultInterval,
      repetitions |-> DefaultRepetitions,
      next_review |-> NULL ]

NewFlashcard(u, t) ==
    [ user_id     |-> u,
      ease_factor |-> DefaultEase,
      interval    |-> DefaultInterval,
      repetitions |-> DefaultRepetitions,
      next_review |-> t ]

FlashcardReview(fid, u, quality, t) ==
    [ flashcard_id |-> fid, user_id |-> u, quality |-> quality,
      reviewed_at |-> t ]

NoResponse == [ op |-> "none" ]

\* the subjects progress is kept for
Subjects == { "math", "physics" }

\* a progress row is found by user_id and subject
ProgressKeys == Users \X Subjects

\* no study session has been logged: both tables are empty
StudyInit ==
    /\ user_progress = [ key \in {} |-> NULL ]
    /\ study_sessions = << >>

Init ==
    /\ cards = << >>
    /\ reviews = << >>
    /\ now = 0
    /\ response = NoResponse
    /\ StudyInit

----------------------------------------------------------------------------
(* Actions *)

\* the clock advances
Tick ==
    /\ now < MaxTime
    /\ now' = now + 1
    /\ UNCHANGED <<cards, reviews, response>>

\* upload: a generated flashcard is stored with the column defaults
CreateFlashcard(u) ==
    /\ Len(cards) < MaxCards
    /\ cards' = Append(cards, NewFlashcard(u, now))
    /\ response' = [ op |-> "create", id |-> Len(cards) + 1 ]
    /\ UNCHANGED <<reviews, now>>

\* faulty variant: an unknown flashcard is logged before the error is raised
UpdateOutcomeLogsUnknown(flashcard_id, quality, utcnow, reviewed_at) ==
    IF flashcard_id \notin DOMAIN cards
    THEN [ error |-> "ValueError", cards |-> cards,
           reviews |-> Append(reviews,
                          FlashcardReview(flashcard_id, 1, quality,
                                          reviewed_at)) ]
    ELSE LET flashcard == cards[flashcard_id]
             ret == CalculateNextReview(quality, flashcard.repetitions,
                        flashcard.ease_factor, flashcard.interval, utcnow)
         IN  [ error   |-> "none",
               cards   |-> [cards EXCEPT ![flashcard_id] =
                              [ user_id     |-> flashcard.user_id,
                                ease_factor |-> ret.new_ease_factor,
                                interval    |-> ret.new_interval,
                                repetitions |-> ret.new_repetitions,
                                next_review |-> ret.next_review_date ]],
               reviews |-> Append(reviews,
                              FlashcardReview(flashcard_id, flashcard.user_id,
                                              quality, reviewed_at)),
               call    |-> [ quality     |-> quality,
                             repetitions |-> flashcard.repetitions,
                             ease_factor |-> flashcard.ease_factor,
                             interval    |-> flashcard.interval,
                             utcnow      |-> utcnow,
                             reviewed_at |-> reviewed_at,
                             ret         |-> ret ] ]

\* faulty variant: the schedule is stored without a review record
UpdateOutcomeNoRecord(flashcard_id, quality, utcnow, reviewed_at) ==
    IF flashcard_id \notin DOMAIN cards
    THEN [ error |-> "ValueError", cards |-> cards, reviews |-> reviews ]
    ELSE LET flashcard == cards[flashcard_id]
             ret == CalculateNextReview(quality, flashcard.repetitions,
                        flashcard.ease_factor, flashcard.interval, utcnow)
         IN  [ error   |-> "none",
               cards   |-> [cards EXCEPT ![flashcard_id] =
                              [ user_id     |-> flashcard.user_id,
                                ease_factor |-> ret.new_ease_factor,
                                interval    |-> ret.new_interval,
                                repetitions |-> ret.new_repetitions,
                                next_review |-> ret.next_review_date ]],
               reviews |-> reviews,
               call    |-> [ quality     |-> quality,
                             repetitions |-> flashcard.repetitions,
                             ease_factor |-> flashcard.ease_factor,
                             interval    |-> flashcard.interval,
                             utcnow      |-> utcnow,
                             reviewed_at |-> reviewed_at,
                             ret         |-> ret ] ]

\* faulty variant: the new schedule is computed from the schedule the card
\* was created with, as by a writer whose read is older than the last commit
UpdateOutcomeStale(flashcard_id, quality, utcnow, reviewed_at) ==
    IF flashcard_id \notin DOMAIN cards
    THEN [ error |-> "ValueError", cards |-> cards, reviews |-> reviews ]
    ELSE LET flashcard == NewFlashcard(cards[flashcard_id].user_id, 0)
             ret == CalculateNextReview(quality, flashcard.repetitions,
                        flashcard.ease_factor, flashcard.interval, utcnow)
         IN  [ error   |-> "none",
               cards   |-> [cards EXCEPT ![flashcard_id] =
                              [ user_id     |-> flashcard.user_id,
                                ease_factor |-> ret.new_ease_factor,
                                interval    |-> ret.new_interval,
                                repetitions |-> ret.new_repetitions,
                                next_review |-> ret.next_review_date ]],
               reviews |-> Append(reviews,
                              FlashcardReview(flashcard_id, flashcard.user_id,
                                              quality, reviewed_at)),
               call    |-> [ quality     |-> quality,
                             repetitions |-> flashcard.repetitions,
                             ease_factor |-> flashcard.ease_factor,
                             interval    |-> flashcard.interval,
                             utcnow      |-> utcnow,
                             reviewed_at |-> reviewed_at,
                             ret         |-> ret ] ]

\* SpacedRepetitionService.update_flashcard_review, as a function of the
\* table contents: utcnow is the clock value calculate_next_review reads,
\* reviewed_at the one the review record reads after it
UpdateOutcome(flashcard_id, quality, utcnow, reviewed_at) ==
    IF flashcard_id \notin DOMAIN cards
    THEN [ error |-> "ValueError", cards |-> cards, reviews |-> reviews ]
    ELSE LET flashcard == cards[flashcard_id]
             ret == CalculateNextReview(quality, flashcard.repetitions,
                        flashcard.ease_factor, flashcard.interval, utcnow)
         IN  [ error   |-> "none",
               cards   |-> [cards EXCEPT ![flashcard_id] =
                              [ user_id     |-> flashcard.user_id,
                                ease_factor |-> ret.new_ease_factor,
                                interval    |-> ret.new_interval,
                                repetitions |-> ret.new_repetitions,
                                next_review |-> ret.next_review_date ]],
               reviews |-> Append(reviews,
                              FlashcardReview(flashcard_id, flashcard.user_id,
                                              quality, reviewed_at)),
               call    |-> [ quality     |-> quality,
                             repetitions |-> flashcard.repetitions,
                             ease_factor |-> flashcard.ease_factor,
                             interval    |-> flashcard.interval,
                             utcnow      |-> utcnow,
                             reviewed_at |-> reviewed_at,
                             ret         |-> ret ] ]

\* the clock values a second read of utcnow() in the same call can return
LaterReads == { t \in {now, now + 1} : t <= MaxTime }

\* the service called directly
UpdateFlashcardReview(flashcard_id, quality) ==
    \E reviewed_at \in LaterReads :
        LET o == UpdateOutcome(flashcard_id, quality, now, reviewed_at) IN
        /\ cards' = o.cards
        /\ reviews' = o.reviews
        /\ now' = IF o.error = "none" THEN reviewed_at ELSE now
        /\ response' = IF o.error = "none"
                       THEN [ op |-> "update_flashcard_review",
                              error |-> "none",
                              flashcard_id |-> flashcard_id, call |-> o.call ]
                       ELSE [ op |-> "update_flashcard_review",
                              error |-> o.error ]

\* faulty variant: the endpoint passes every rating on to the service
ReviewFlashcardNoCheck(flashcard_id, quality) ==
    \E reviewed_at \in LaterReads :
        LET o == UpdateOutcome(flashcard_id, quality, now, reviewed_at) IN
        /\ cards' = o.cards
        /\ reviews' = o.reviews
        /\ now' = IF o.error = "none" THEN reviewed_at ELSE now
        /\ response' = IF o.error = "none"
                       THEN [ op |-> "review_flashcard", status |-> 200,
                              error |-> "none",
                              flashcard_id |-> flashcard_id, call |-> o.call ]
                       ELSE [ op |-> "review_flashcard", status |-> 404,
                              error |-> o.error ]

\* POST /flashcard/{flashcard_id}/review
ReviewFlashcard(flashcard_id, quality) ==
    IF quality < 0 \/ quality > MaxQuality
    THEN /\ response' = [ op |-> "review_flashcard", status |-> 400,
                          error |-> "Quality must be between 0 and 5" ]
         /\ UNCHANGED <<cards, reviews, now>>
    ELSE \E reviewed_at \in LaterReads :
        LET o == UpdateOutcome(flashcard_id, quality, now, reviewed_at) IN
        /\ cards' = o.cards
        /\ reviews' = o.reviews
        /\ now' = IF o.error = "none" THEN reviewed_at ELSE now
        /\ response' = IF o.error = "none"
                       THEN [ op |-> "review_flashcard", status |-> 200,
                              error |-> "none",
                              flashcard_id |-> flashcard_id, call |-> o.call ]
                       ELSE [ op |-> "review_flashcard", status |-> 404,
                              error |-> o.error ]

----------------------------------------------------------------------------
(* The due queries *)

\* faulty variant: a card is due only strictly after its next_review
DueFilterStrict(id, user_id, utcnow) ==
    /\ cards[id].user_id = user_id
    /\ cards[id].next_review # NULL
    /\ cards[id].next_review < utcnow

\* the WHERE clause of query_due_cards: a comparison with NULL is not true
DueFilter(id, user_id, utcnow) ==
    /\ cards[id].user_id = user_id
    /\ cards[id].next_review # NULL
    /\ cards[id].next_review <= utcnow

\* faulty variant: ORDER BY next_review DESC
OrderedByDescending(rows) ==
    { s \in [1..Cardinality(rows) -> rows] :
        /\ \A i, j \in DOMAIN s : i # j => s[i] # s[j]
        /\ \A i, j \in DOMAIN s :
              i < j => cards[s[i]].next_review >= cards[s[j]].next_review }

\* ORDER BY next_review: every order of the rows that is ascending in
\* next_review (the database is free in the order of equal keys)
OrderedBy(rows) ==
    { s \in [1..Cardinality(rows) -> rows] :
        /\ \A i, j \in DOMAIN s : i # j => s[i] # s[j]
        /\ \A i, j \in DOMAIN s :
              i < j => cards[s[i]].next_review <= cards[s[j]].next_review }

QueryDueCards(user_id, utcnow) ==
    OrderedBy({ id \in DOMAIN cards : DueFilter(id, user_id, utcnow) })

\* faulty variant: LIMIT keeps the last n rows instead of the first n
LimitFromEnd(s, n) ==
    SubSeq(s, (IF Len(s) < n THEN 0 ELSE Len(s) - n) + 1, Len(s))

\* .limit(n): the first n rows of the ordered result, or all of them
Limit(s, n) == SubSeq(s, 1, IF Len(s) < n THEN Len(s) ELSE n)

\* faulty variant: the query postpones the cards it returns by a day
GetDueFlashcardsPostpones(user_id) ==
    \E s \in QueryDueCards(user_id, now) :
        /\ response' = [ op |-> "get_due_flashcards", user_id |-> user_id,
                         utcnow |-> now, ids |-> Limit(s, DueLimit) ]
        /\ cards' = [ id \in DOMAIN cards |->
                        IF \E i \in DOMAIN s : s[i] = id
                        THEN [ cards[id] EXCEPT !.next_review = @ + Days(1) ]
                        ELSE cards[id] ]
        /\ UNCHANGED <<reviews, now>>

\* GET /flashcards/due
GetDueFlashcards(user_id) ==
    \E s \in QueryDueCards(user_id, now) :
        /\ response' = [ op |-> "get_due_flashcards", user_id |-> user_id,
                         utcnow |-> now, ids |-> Limit(s, DueLimit) ]
        /\ UNCHANGED <<cards, reviews, now>>

\* the due_only filter of GET /{material_id}/flashcards
DueOnlyFilter(id, utcnow) ==
    \/ cards[id].next_review = NULL
    \/ cards[id].next_review <= utcnow

\* GET /{material_id}/flashcards; the material is the user's set of cards
GetFlashcards(user_id, due_only) ==
    /\ response' = [ op |-> "get_flashcards", user_id |-> user_id,
                     due_only |-> due_only, utcnow |-> now,
                     ids |-> { id \in DOMAIN cards :
                                 /\ cards[id].user_id = user_id
                                 /\ due_only => DueOnlyFilter(id, now) } ]
    /\ UNCHANGED <<cards, reviews, now>>

----------------------------------------------------------------------------
(* The system: cards are created, reviewed and queried while time passes *)

Next ==
    /\ \/ Tick
       \/ \E u \in Users : CreateFlashcard(u)
       \/ /\ Len(reviews) < MaxReviews
          /\ \E id \in CardIds, q \in AnyQuality : UpdateFlashcardReview(id, q)
       \/ /\ Len(reviews) < MaxReviews
          /\ \E id \in CardIds, q \in AnyQuality : ReviewFlashcard(id, q)
       \/ \E u \in Users : GetDueFlashcards(u)
       \/ \E u \in Users, d \in BOOLEAN : GetFlashcards(u, d)
    /\ UNCHANGED study

Spec == Init /\ [][Next]_vars

----------------------------------------------------------------------------
(* calculate_next_review on any stored schedule: one card whose schedule   *)
(* is drawn from bounded sets, reviewed through the service                *)

EaseGrid == { MinEase + EaseStep * k : k \in 0..MaxEaseSteps }

CalcInit ==
    /\ \E e \in EaseGrid, i \in 0..MaxInterval0, r \in 0..MaxRepetitions0 :
          cards = << [ user_id |-> 1, ease_factor |-> e, interval |-> i,
                       repetitions |-> r, next_review |-> 0 ] >>
    /\ reviews = << >>
    /\ now \in 0..MaxNow0
    /\ response = NoResponse
    /\ StudyInit

CalcNext ==
    /\ Len(reviews) < MaxReviews
    /\ \E id \in CardIds, q \in AnyQuality : UpdateFlashcardReview(id, q)
    /\ UNCHANGED study

CalcSpec == CalcInit /\ [][CalcNext]_vars

----------------------------------------------------------------------------
(* The due queries as functions of the flashcards table and the clock: the *)
(* table is drawn from bounded sets, each card with an owner and a         *)
(* next_review some upload or review has stored, and is queried at a time  *)
(* drawn with it.  The queries read no other column, which keep their      *)
(* defaults, and write nothing.                                            *)

DueInit ==
    /\ \E n \in 0..MaxCards :
          \E owner \in [1..n -> Users], due \in [1..n -> 0..MaxTime] :
              cards = [ id \in 1..n |->
                          [ NewFlashcard(owner[id], 0)
                              EXCEPT !.next_review = due[id] ] ]
    /\ reviews = << >>
    /\ now \in 0..MaxTime
    /\ response = NoResponse
    /\ StudyInit

DueNext ==
    /\ \/ \E u \in Users : GetDueFlashcards(u)
       \/ \E u \in Users, d \in BOOLEAN : GetFlashcards(u, d)
    /\ UNCHANGED study

DueSpec == DueInit /\ [][DueNext]_vars

----------------------------------------------------------------------------
(* The statistics of a user: get_study_statistics                          *)

\* the value `or 2.5` substitutes for the average of no rows, in hundredths
NoCardsEase == 250

\* func.date / .date(): the calendar day a clock value falls in
Date(t) == t \div TicksPerDay

\* the flashcards joined to the user's documents
CardsOf(user_id) == { id \in DOMAIN cards : cards[id].user_id = user_id }

\* faulty variant: the count leaves out the cards that fall due right now
DueCountStrict(user_id, utcnow) ==
    Cardinality({ id \in DOMAIN cards :
                    /\ cards[id].user_id = user_id
                    /\ cards[id].next_review # NULL
                    /\ cards[id].next_review < utcnow })

\* due_cards: the count of the user's rows with next_review <= utcnow()
DueCount(user_id, utcnow) ==
    Cardinality({ id \in DOMAIN cards :
                    /\ cards[id].user_id = user_id
                    /\ cards[id].next_review # NULL
                    /\ cards[id].next_review <= utcnow })

\* cards_reviewed_today: the user's review records dated today
ReviewedTodayCount(user_id, today) ==
    Cardinality({ i \in DOMAIN reviews :
                    /\ reviews[i].user_id = user_id
                    /\ Date(reviews[i].reviewed_at) = today })

RECURSIVE SumEase(_)
SumEase(ids) ==
    IF ids = {} THEN 0
    ELSE LET id == CHOOSE x \in ids : TRUE
         IN  cards[id].ease_factor + SumEase(ids \ {id})

\* faulty variant: the average of no rows is reported as 0
AverageEaseNoDefault(user_id) ==
    LET n == Cardinality(CardsOf(user_id))
        sum == SumEase(CardsOf(user_id))
    IN  IF n = 0 THEN {0} ELSE {sum \div n}

\* round(float(avg or 2.5), 2) in hundredths: the values the rounding of
\* the mean can give (a mean half way between two hundredths goes to either
\* one, as its binary value lies on either side)
AverageEase(user_id) ==
    LET n == Cardinality(CardsOf(user_id))
        sum == SumEase(CardsOf(user_id))
    IN  IF n = 0 THEN {NoCardsEase}
        ELSE IF 2 * (sum % n) < n THEN {sum \div n}
        ELSE IF 2 * (sum % n) > n THEN {sum \div n + 1}
        ELSE {sum \div n, sum \div n + 1}

\* GET /flashcards/stats: SpacedRepetitionService.get_study_statistics.
\* The clock is read for the due count and again for today's date.  The
\* difficulty_distribution groups the cards by a column that no schedule
\* reads or writes; the model does not carry that column.
GetStudyStatistics(user_id) ==
    \E t \in LaterReads : \E avg_ease \in AverageEase(user_id) :
        /\ response' =
              [ op |-> "get_study_statistics", user_id |-> user_id,
                utcnow |-> now, today |-> Date(t),
                stats |->
                  [ total_cards |-> Cardinality(CardsOf(user_id)),
                    due_cards |-> DueCount(user_id, now),
                    cards_reviewed_today |->
                        ReviewedTodayCount(user_id, Date(t)),
                    average_ease_factor |-> avg_ease ] ]
        /\ UNCHANGED <<cards, reviews, now>>

\* the ratings the statistics are exercised with: a failure and a success
StatsQualities == {0, MaxQuality}

\* users have uploaded their cards at time 0, the cards numbered in the
\* order of their owners (the statistics do not read the id); cards are
\* reviewed and the statistics asked for while time passes
StatsInit ==
    /\ \E n \in 0..MaxCards : \E owner \in [1..n -> Users] :
          /\ \A i, j \in 1..n : i < j => owner[i] <= owner[j]
          /\ cards = [ id \in 1..n |-> NewFlashcard(owner[id], 0) ]
    /\ reviews = << >>
    /\ now = 0
    /\ response = NoResponse
    /\ StudyInit

StatsNext ==
    /\ \/ Tick
       \/ /\ Len(reviews) < MaxReviews
          /\ \E id \in DOMAIN cards, q \in StatsQualities :
                UpdateFlashcardReview(id, q)
       \/ \E u \in Users : GetStudyStatistics(u)
    /\ UNCHANGED study

StatsSpec == StatsInit /\ [][StatsNext]_vars

----------------------------------------------------------------------------
(* The review endpoint of app/api/study.py, which takes (correct,          *)
(* confidence).  Its flashcards are the rows of models/study_material.py;  *)
(* the model keeps them in cards (review_interval as interval,             *)
(* review_count as repetitions).                                           *)

\* FlashcardReview.confidence: low, medium, high
Confidences == { "low", "medium", "high" }

\* POST /flashcards/review: the flashcard is looked up among the user's
\* own; the call spaced_repetition.quality_from_performance(...) then looks
\* up an attribute that class SpacedRepetitionService does not define (it
\* defines calculate_next_review, get_due_flashcards_query,
\* update_flashcard_review and get_study_statistics), which raises
\* AttributeError before anything is computed or stored
ApiReviewFlashcard(flashcard_id, user_id, correct, confidence) ==
    /\ response' =
          IF ~(flashcard_id \in DOMAIN cards
                 /\ cards[flashcard_id].user_id = user_id)
          THEN [ op |-> "api_review_flashcard", status |-> 404,
                 error |-> "Flashcard not found" ]
          ELSE [ op |-> "api_review_flashcard", status |-> 500,
                 error |-> "AttributeError",
                 flashcard_id |-> flashcard_id, correct |-> correct,
                 confidence |-> confidence ]
    /\ UNCHANGED <<cards, reviews, now>>

\* users have uploaded their cards at time 0 and answer them
ApiInit ==
    /\ \E n \in 0..MaxCards : \E owner \in [1..n -> Users] :
          cards = [ id \in 1..n |-> NewFlashcard(owner[id], 0) ]
    /\ reviews = << >>
    /\ now = 0
    /\ response = NoResponse
    /\ StudyInit

ApiNext ==
    /\ \/ Tick
       \/ \E id \in CardIds, u \in Users, correct \in BOOLEAN,
             confidence \in Confidences :
                ApiReviewFlashcard(id, u, correct, confidence)
    /\ UNCHANGED study

ApiSpec == ApiInit /\ [][ApiNext]_vars

----------------------------------------------------------------------------
(* Sequences of reviews: one user's cards, uploaded at time 0, are         *)
(* reviewed several times in a row, through the service and through the    *)
(* endpoint, with identities that exist and identities that do not         *)

\* the longest sequence of recorded reviews
MaxSeqReviews == 2

\* the ratings of the sequences: a failure, the two ends of the passing
\* range and a rating on either side of the scale
SeqQualities == {-1, 0, PassQuality, MaxQuality, MaxQuality + 1}

SeqInit ==
    /\ \E n \in 0..MaxCards : cards = [ id \in 1..n |-> NewFlashcard(1, 0) ]
    /\ reviews = << >>
    /\ now = 0
    /\ response = NoResponse
    /\ StudyInit

SeqNext ==
    /\ Len(reviews) < MaxSeqReviews
    /\ \/ \E id \in CardIds, q \in SeqQualities : UpdateFlashcardReview(id, q)
       \/ \E id \in CardIds, q \in SeqQualities : ReviewFlashcard(id, q)
    /\ UNCHANGED study

SeqSpec == SeqInit /\ [][SeqNext]_vars

----------------------------------------------------------------------------
(* All the handlers of routers/study.py that read or write a schedule,     *)
(* called in any order on the cards users have uploaded at time 0          *)

FrameInit ==
    /\ \E n \in 0..MaxCards : \E owner \in [1..n -> Users] :
          /\ \A i, j \in 1..n : i < j => owner[i] <= owner[j]
          /\ cards = [ id \in 1..n |-> NewFlashcard(owner[id], 0) ]
    /\ reviews = << >>
    /\ now = 0
    /\ response = NoResponse
    /\ StudyInit

FrameNext ==
    /\ \/ /\ Len(reviews) < MaxReviews
          /\ \E id \in CardIds, q \in SeqQualities : UpdateFlashcardReview(id, q)
       \/ /\ Len(reviews) < MaxReviews
          /\ \E id \in CardIds, q \in SeqQualities : ReviewFlashcard(id, q)
       \/ \E u \in Users : GetDueFlashcards(u)
       \/ \E u \in Users : GetStudyStatistics(u)
    /\ UNCHANGED study

FrameSpec == FrameInit /\ [][FrameNext]_vars

----------------------------------------------------------------------------
(* New cards: one user uploads cards at any time, reviews them and asks    *)
(* for the due cards while time passes                                     *)

NewCardNext ==
    /\ \/ Tick
       \/ CreateFlashcard(1)
       \/ /\ Len(reviews) < MaxReviews
          /\ \E id \in DOMAIN cards, q \in StatsQualities :
                UpdateFlashcardReview(id, q)
       \/ GetDueFlashcards(1)
    /\ UNCHANGED study

NewCardSpec == Init /\ [][NewCardNext]_vars

----------------------------------------------------------------------------
(* The study streak: POST /session of app/api/progress.py                  *)

\* the most study sessions logged
MaxSessions == 3

\* UserProgress.study_streak: the column default, applied when a row is
\* inserted with the attribute never assigned
DefaultStreak == 0

\* session types that skip the flashcard mastery average
SessionTypes == { "quiz", "reading" }

\* minutes of a session
Durations == { 30 }

\* log_study_session.  The clock is read for ended_at, again for
\* last_study_date and again for yesterday.  last_study_date is assigned
\* before the streak is looked at, so the date compared with yesterday is
\* the date of this session, not of the one before.  On a row that is new
\* study_streak is None until the insert: `+= 1` raises TypeError and the
\* request fails with nothing committed.
LogStudySession(user_id, subject, session_type, duration) ==
    \E last_study_date \in LaterReads :
      \E t \in { r \in LaterReads : r >= last_study_date } :
        LET key == <<user_id, subject>>
            found == key \in DOMAIN user_progress
            study_streak == IF found THEN user_progress[key].study_streak
                            ELSE NULL
            total_study_time ==
                IF found THEN user_progress[key].total_study_time ELSE 0
            yesterday == Date(t) - 1
            new_streak ==
                IF Date(last_study_date) = yesterday THEN study_streak + 1
                ELSE IF Date(last_study_date) < yesterday THEN 1
                ELSE study_streak
        IN  /\ now' = t
            /\ UNCHANGED <<cards, reviews>>
            /\ IF Date(last_study_date) = yesterday /\ study_streak = NULL
               THEN /\ response' = [ op |-> "log_study_session",
                                     status |-> 500, error |-> "TypeError" ]
                    /\ UNCHANGED study
               ELSE /\ user_progress' =
                          [ k \in DOMAIN user_progress \cup {key} |->
                              IF k = key
                              THEN [ study_streak |->
                                         IF new_streak = NULL
                                         THEN DefaultStreak ELSE new_streak,
                                     last_study_date |-> last_study_date,
                                     total_study_time |->
                                         total_study_time + duration ]
                              ELSE user_progress[k] ]
                    /\ study_sessions' =
                          Append(study_sessions,
                                 [ user_id |-> user_id, subject |-> subject,
                                   session_type |-> session_type,
                                   duration |-> duration, ended_at |-> now ])
                    /\ response' = [ op |-> "log_study_session",
                                     status |-> 200, error |-> "none" ]

StreakNext ==
    \/ Tick /\ UNCHANGED study
    \/ /\ Len(study_sessions) < MaxSessions
       /\ \E u \in Users, subject \in Subjects, session_type \in SessionTypes,
             duration \in Durations :
                LogStudySession(u, subject, session_type, duration)

StreakSpec == Init /\ [][StreakNext]_vars

----------------------------------------------------------------------------
(* The life of one card: a card uploaded at time 0 with the column         *)
(* defaults is reviewed through the endpoint again and again               *)

\* the longest life of the card, in recorded reviews
MaxCardReviews == 5

\* the ratings of the life: a failure with the largest and one with the
\* smallest loss of ease, the lowest and the highest passing rating
CardQualities == {0, PassQuality - 1, PassQuality, MaxQuality}

CardInit ==
    /\ cards = << NewFlashcard(1, 0) >>
    /\ reviews = << >>
    /\ now = 0
    /\ response = NoResponse
    /\ StudyInit

CardNext ==
    /\ Len(reviews) < MaxCardReviews
    /\ \E q \in CardQualities : ReviewFlashcard(1, q)
    /\ UNCHANGED study

CardSpec == CardInit /\ [][CardNext]_vars

----------------------------------------------------------------------------
(* The clock keeps advancing: one user reviews two cards through the       *)
(* endpoint, and time does not stop                                        *)

\* the card is in the due set of its owner at the present time
InDueSet(id) ==
    \E s \in QueryDueCards(cards[id].user_id, now) :
        \E i \in DOMAIN s : s[i] = id

\* the clock advances; calls are made until MaxTime, and beyond it the
\* clock is followed as far as the latest review date stored
LiveTick ==
    /\ \/ now < MaxTime
       \/ \E id \in DOMAIN cards :
             cards[id].next_review # NULL /\ now < cards[id].next_review
    /\ now' = now + 1
    /\ UNCHANGED <<cards, reviews, response, study>>

\* two cards of one user, uploaded at time 0 with the column defaults
LiveInit ==
    /\ cards = << NewFlashcard(1, 0), NewFlashcard(1, 0) >>
    /\ reviews = << >>
    /\ now = 0
    /\ response = NoResponse
    /\ StudyInit

LiveNext ==
    \/ LiveTick
    \/ /\ Len(reviews) < MaxSeqReviews
       /\ \E id \in DOMAIN cards, q \in StatsQualities :
             ReviewFlashcard(id, q)
       /\ UNCHANGED study

\* time passes whatever the users do
LiveSpec == LiveInit /\ [][LiveNext]_vars /\ WF_vars(LiveTick)

----------------------------------------------------------------------------
(* Properties *)

\* the most recent call was a review that went through
Reviewed ==
    /\ response.op \in {"update_flashcard_review", "review_flashcard"}
    /\ response.error = "none"

ReviewedValid == Reviewed /\ response.call.quality \in ValidQualities

Range(s) == { s[i] : i \in DOMAIN s }

\* every stored card has its next_review set: uploads store utcnow() and a
\* review stores a date (this is why DueInit draws no unset next_review)
NextReviewSet == \A id \in DOMAIN cards : cards[id].next_review # NULL

\* C1: the stored ease factor of every card is at least 1.3 in every state,
\* whatever schedule (ease >= 1.3) the card started from and whatever the
\* quality of its reviews.
C1_EaseFloor ==
    /\ \A id \in DOMAIN cards : cards[id].ease_factor >= MinEase
    /\ Reviewed => response.call.ret.new_ease_factor >= MinEase

\* C1 witness: a review with a valid quality whose raw update would fall
\* below 1.3 was recorded, and the stored ease is the floor.
C1_Witness ==
    /\ ReviewedValid
    /\ response.call.ease_factor > MinEase
    /\ response.call.ease_factor + EaseDelta(response.call.quality) < MinEase
    /\ cards[response.flashcard_id].ease_factor = MinEase

\* C2: after a review with quality 0, 1 or 2 the repetition count is 0 and
\* the interval is 1 day, whatever the card's schedule was before.
C2_FailResets ==
    (ReviewedValid /\ response.call.quality < 3) =>
        /\ response.call.ret.new_repetitions = 0
        /\ response.call.ret.new_interval = 1
        /\ cards[response.flashcard_id].repetitions = 0
        /\ cards[response.flashcard_id].interval = 1

\* C2 witness: a card with two repetitions and a six-day interval failed.
C2_Witness ==
    /\ ReviewedValid
    /\ response.call.quality < 3
    /\ response.call.repetitions = 2
    /\ response.call.interval = 6
    /\ cards[response.flashcard_id].repetitions = 0

\* C3: after a review with quality 3, 4 or 5 the repetition count is the old
\* one plus 1; if that is 1 the interval is 1 day and if it is 2 the interval
\* is 6 days, whatever the interval and ease factor were before.
C3_PassStep ==
    (ReviewedValid /\ response.call.quality >= 3) =>
        LET c == response.call
            card == cards[response.flashcard_id] IN
        /\ c.ret.new_repetitions = c.repetitions + 1
        /\ card.repetitions = c.repetitions + 1
        /\ card.repetitions = 1 => card.interval = 1
        /\ card.repetitions = 2 => card.interval = 6

\* C3 witness: a second passing review of a card whose interval was not 1
\* and whose ease was not the default gave six days.
C3_Witness ==
    /\ ReviewedValid
    /\ response.call.quality = 5
    /\ response.call.repetitions = 1
    /\ response.call.interval = 4
    /\ response.call.ease_factor # DefaultEase
    /\ cards[response.flashcard_id].interval = 6

\* C4: a passing review that takes the repetition count to 3 or more sets
\* the interval to the ceiling of old interval x NEW ease factor: it is the
\* least whole number of days n with old interval x new ease <= n; reviewing
\* (repetitions 2, interval 6, ease 2.5) with quality 5 gives 2.6 and 16.
C4_ExponentialStep ==
    (ReviewedValid /\ response.call.quality >= 3
                   /\ response.call.repetitions + 1 >= 3) =>
        LET c == response.call
            card == cards[response.flashcard_id]
            product == c.interval * card.ease_factor IN
        /\ card.interval = c.ret.new_interval
        /\ product <= Scale * card.interval
        /\ Scale * (card.interval - 1) < product
        /\ (c.quality = 5 /\ c.repetitions = 2 /\ c.interval = 6
                /\ c.ease_factor = 250) =>
              (card.ease_factor = 260 /\ card.interval = 16)

\* C4 witness: the third review of (2, 6 days, 2.5) with quality 5; the old
\* ease factor would have given 15 days.
C4_Witness ==
    /\ ReviewedValid
    /\ response.call.quality = 5
    /\ response.call.repetitions = 2
    /\ response.call.interval = 6
    /\ response.call.ease_factor = 250
    /\ cards[response.flashcard_id].interval = 16

\* the change of the ease factor before flooring, in hundredths, for
\* quality 0, 1, 2, 3, 4, 5
EaseChange == << -80, -54, -32, -14, 0, 10 >>

\* C5: every review with a quality in 0..5, failed or passed, stores
\* max(1.3, ease + change(quality)) with change = -0.80, -0.54, -0.32, -0.14,
\* 0, +0.10; a failed review never raises the ease factor and quality 4
\* leaves it unchanged.
C5_EaseUpdateAlways ==
    ReviewedValid =>
        LET c == response.call
            card == cards[response.flashcard_id]
            raw == c.ease_factor + EaseChange[c.quality + 1] IN
        /\ card.ease_factor = (IF raw < 130 THEN 130 ELSE raw)
        /\ c.quality < 3 => card.ease_factor <= c.ease_factor
        /\ c.quality = 4 => card.ease_factor = c.ease_factor

\* C5 witness: a failed review lowered the ease factor by the full change.
C5_Witness ==
    /\ ReviewedValid
    /\ response.call.quality = 1
    /\ cards[response.flashcard_id].ease_factor = response.call.ease_factor - 54

\* C6 (as claimed): a review call with a quality outside 0..5 fails and
\* computes no schedule, so no review that went through has such a quality.
C6_InvalidQualityRejected ==
    /\ Reviewed => response.call.quality \in ValidQualities
    /\ \A i \in DOMAIN reviews : reviews[i].quality \in ValidQualities

\* C7: after a review next_review is the clock value the scheduler read plus
\* the new interval in whole days; a new card first reviewed with quality 4
\* has repetitions 1, interval 1 and next_review one day after the review.
C7_NextReviewDate ==
    Reviewed =>
        LET c == response.call
            card == cards[response.flashcard_id] IN
        /\ card.next_review = c.utcnow + card.interval * TicksPerDay
        /\ c.ret.next_review_date = card.next_review
        /\ (c.quality = 4 /\ c.repetitions = DefaultRepetitions
                /\ c.interval = DefaultInterval
                /\ c.ease_factor = DefaultEase) =>
              /\ card.repetitions = 1
              /\ card.interval = 1
              /\ card.next_review = c.utcnow + TicksPerDay

\* C7 witness: a review at a time other than 0 that set a six-day interval.
C7_Witness ==
    /\ Reviewed
    /\ response.call.utcnow > 0
    /\ cards[response.flashcard_id].interval = 6
    /\ cards[response.flashcard_id].next_review
           = response.call.utcnow + 6 * TicksPerDay

HasReview(id) == \E i \in DOMAIN reviews : reviews[i].flashcard_id = id

\* reviewed_at of the most recent review record of the card
LastReviewedAt(id) ==
    LET last == CHOOSE i \in DOMAIN reviews :
                    /\ reviews[i].flashcard_id = id
                    /\ \A j \in DOMAIN reviews :
                          reviews[j].flashcard_id = id => j <= i
    IN  reviews[last].reviewed_at

\* C8 (as claimed): once a card has a review record, its next_review is the
\* reviewed_at of its latest review record plus its interval in days.
C8_NextReviewFromLastReview ==
    \A id \in DOMAIN cards :
        HasReview(id) =>
            cards[id].next_review
                = LastReviewedAt(id) + cards[id].interval * TicksPerDay

\* the cards of the user that are due at time t
ExpectedDue(user_id, t) ==
    { id \in DOMAIN cards :
        /\ cards[id].user_id = user_id
        /\ (cards[id].next_review = NULL \/ cards[id].next_review <= t) }

DaysOverdue(id, t) == (t - cards[id].next_review) \div TicksPerDay

\* C10: in the answer of the due query a card that is more whole days
\* overdue comes before every card that is fewer whole days overdue.
C10_DueOrdering ==
    /\ \A u \in Users : \A s \in QueryDueCards(u, now) :
          \A i, j \in DOMAIN s :
              DaysOverdue(s[i], now) > DaysOverdue(s[j], now) => i < j
    /\ response.op = "get_due_flashcards" =>
          \A i, j \in DOMAIN response.ids :
              DaysOverdue(response.ids[i], response.utcnow)
                  > DaysOverdue(response.ids[j], response.utcnow) => i < j

\* C10 witness: a due query answered with two cards overdue by different
\* numbers of whole days.
C10_Witness ==
    /\ response.op = "get_due_flashcards"
    /\ Len(response.ids) = 2
    /\ DaysOverdue(response.ids[1], response.utcnow)
           > DaysOverdue(response.ids[2], response.utcnow)

\* C11 (as claimed): in every answer of the due query, no card without a
\* review record stands before a reviewed card that is overdue by one whole
\* day or more (a never-reviewed card has the lowest priority).
C11_NeverReviewedLast ==
    /\ \A u \in Users : \A s \in QueryDueCards(u, now) :
          \A i, j \in DOMAIN s :
              (i < j /\ ~HasReview(s[i]) /\ HasReview(s[j]))
                  => DaysOverdue(s[j], now) < 1
    /\ response.op = "get_due_flashcards" =>
          \A i, j \in DOMAIN response.ids :
              (i < j /\ ~HasReview(response.ids[i])
                     /\ HasReview(response.ids[j]))
                  => DaysOverdue(response.ids[j], response.utcnow) < 1

\* C12: for every limit L, the first L rows of a due ordering are exactly
\* min(L, number of due cards) distinct due cards, and no due card left out
\* is more whole days overdue than a card returned; the due-flashcards
\* endpoint answers with the rows that limit 20 keeps.
C12_LimitMostOverdue ==
    /\ \A u \in Users : \A s \in QueryDueCards(u, now) :
          \A L \in 0..(MaxCards + 1) :
              LET r == Limit(s, L)
                  due == ExpectedDue(u, now)
              IN  /\ Len(r) = (IF L < Cardinality(due)
                                  THEN L ELSE Cardinality(due))
                  /\ Cardinality(Range(r)) = Len(r)
                  /\ Range(r) \subseteq due
                  /\ \A out \in due \ Range(r) : \A in \in Range(r) :
                        DaysOverdue(out, now) <= DaysOverdue(in, now)
    /\ response.op = "get_due_flashcards" =>
          LET due == ExpectedDue(response.user_id, response.utcnow)
          IN  /\ Len(response.ids) = (IF DueLimit < Cardinality(due)
                                         THEN DueLimit ELSE Cardinality(due))
              /\ Cardinality(Range(response.ids)) = Len(response.ids)
              /\ \E s \in QueryDueCards(response.user_id, response.utcnow) :
                    response.ids = Limit(s, DueLimit)

\* C12 witness: the due endpoint has answered a user with two due cards
\* overdue by different numbers of whole days, so that a limit of 1 leaves
\* the less overdue card out.
C12_Witness ==
    /\ response.op = "get_due_flashcards"
    /\ response.utcnow = now
    /\ Len(response.ids) = 2
    /\ Len(Limit(response.ids, 1)) = 1
    /\ DaysOverdue(response.ids[2], now)
           < DaysOverdue(Limit(response.ids, 1)[1], now)

\* C13 (as claimed): the statistics report new_count (the user's cards with
\* repetitions = 0), mastered_count (interval > 21 days) and learning_count,
\* and the three add up to total_cards.
C13_StatisticsTotals ==
    response.op = "get_study_statistics" =>
        /\ {"new_count", "learning_count", "mastered_count"}
               \subseteq DOMAIN response.stats
        /\ response.stats.new_count
               = Cardinality({ id \in CardsOf(response.user_id) :
                                 cards[id].repetitions = 0 })
        /\ response.stats.mastered_count
               = Cardinality({ id \in CardsOf(response.user_id) :
                                 cards[id].interval > 21 })
        /\ response.stats.new_count + response.stats.learning_count
               + response.stats.mastered_count = response.stats.total_cards

\* C14: the statistics of a user without flashcards are total_cards 0,
\* due_cards 0, cards_reviewed_today 0 and average_ease_factor 2.5.
C14_EmptyStatistics ==
    (response.op = "get_study_statistics" /\ CardsOf(response.user_id) = {})
        => response.stats = [ total_cards |-> 0, due_cards |-> 0,
                              cards_reviewed_today |-> 0,
                              average_ease_factor |-> 250 ]

\* C14 witness: the statistics of a user without flashcards have been
\* reported while another user has a card and a review record.
C14_Witness ==
    /\ response.op = "get_study_statistics"
    /\ CardsOf(response.user_id) = {}
    /\ cards # << >>
    /\ reviews # << >>

\* C15: on one table and at one time, the due_cards of the statistics is
\* the number of cards the due query returns without a limit, and it is at
\* most total_cards.
C15_DueCountMatchesQuery ==
    /\ \A u \in Users : \A s \in QueryDueCards(u, now) :
          /\ DueCount(u, now) = Len(s)
          /\ DueCount(u, now) <= Cardinality(CardsOf(u))
    /\ response.op = "get_study_statistics" =>
          /\ \A s \in QueryDueCards(response.user_id, response.utcnow) :
                response.stats.due_cards = Len(s)
          /\ response.stats.due_cards <= response.stats.total_cards

\* C15 witness: statistics reported for a user some of whose cards are due
\* and some are not.
C15_Witness ==
    /\ response.op = "get_study_statistics"
    /\ response.stats.due_cards > 0
    /\ response.stats.due_cards < response.stats.total_cards

\* the lookup the claim gives for quality_from_outcome
ClaimedQuality(correct, confidence) ==
    IF ~correct THEN 0
    ELSE IF confidence = "low" THEN 3
    ELSE IF confidence = "medium" THEN 4
    ELSE 5

\* C16 (as claimed): a review of one of the user's flashcards through the
\* (correct, confidence) endpoint succeeds with the quality of the lookup
\* (0 for a wrong answer; 3, 4, 5 for a right one with low, medium, high
\* confidence), and a wrong answer leaves the card reset to repetitions 0
\* and interval 1.
C16_OutcomeQuality ==
    (response.op = "api_review_flashcard" /\ response.status # 404) =>
        /\ response.status = 200
        /\ response.quality
               = ClaimedQuality(response.correct, response.confidence)
        /\ response.quality \in {0, 3, 4, 5}
        /\ ~response.correct =>
              /\ cards[response.flashcard_id].repetitions = 0
              /\ cards[response.flashcard_id].interval = 1

\* C17: a review of a flashcard identity that is not in the table, through
\* the service or (with a rating in 0..5) through the endpoint, answers
\* with the ValueError, as HTTP 404 from the endpoint, without a call of
\* calculate_next_review, and leaves the cards and the review log as they
\* were.
C17_UnknownFlashcard ==
    [][ \A id \in CardIds \ DOMAIN cards : \A q \in SeqQualities :
          /\ UpdateFlashcardReview(id, q) =>
                /\ response'.op = "update_flashcard_review"
                /\ response'.error = "ValueError"
                /\ "call" \notin DOMAIN response'
                /\ UNCHANGED <<cards, reviews>>
          /\ (q \in ValidQualities /\ ReviewFlashcard(id, q)) =>
                /\ response'.status = 404
                /\ response'.error = "ValueError"
                /\ "call" \notin DOMAIN response'
                /\ UNCHANGED <<cards, reviews>>
      ]_vars

\* C17 witness: the endpoint has answered 404 for an unknown flashcard
\* after a review of an existing card was recorded.
C17_Witness ==
    /\ response.op = "review_flashcard"
    /\ response.status = 404
    /\ cards # << >>
    /\ reviews # << >>

\* the number of review records of a card in a log
RecordsOf(log, id) ==
    Cardinality({ i \in DOMAIN log : log[i].flashcard_id = id })

\* C18: every step keeps the records the log already has, in place; a call
\* that completes a review of a card appends exactly one record, of that
\* card, and writes that card's schedule and no other; a call that does not
\* complete a review leaves the log and every schedule as they were.  So
\* a card's records are as many as its completed reviews.
C18_AppendOnlyLog ==
    [][ /\ Len(reviews') >= Len(reviews)
        /\ SubSeq(reviews', 1, Len(reviews)) = reviews
        /\ IF response'.error = "none"
           THEN LET id == response'.flashcard_id IN
                /\ id \in DOMAIN cards
                /\ Len(reviews') = Len(reviews) + 1
                /\ reviews'[Len(reviews')].flashcard_id = id
                /\ reviews'[Len(reviews')].quality = response'.call.quality
                /\ \A c \in DOMAIN cards :
                      RecordsOf(reviews', c)
                          = RecordsOf(reviews, c) + (IF c = id THEN 1 ELSE 0)
                /\ DOMAIN cards' = DOMAIN cards
                /\ \A c \in DOMAIN cards : c # id => cards'[c] = cards[c]
                /\ cards'[id].repetitions = response'.call.ret.new_repetitions
                /\ cards'[id].interval = response'.call.ret.new_interval
                /\ cards'[id].ease_factor = response'.call.ret.new_ease_factor
                /\ cards'[id].next_review = response'.call.ret.next_review_date
           ELSE UNCHANGED <<cards, reviews>>
      ]_vars

\* C18 witness: two reviews of the same card have completed and the log
\* holds their two records in order.
C18_Witness ==
    /\ Len(reviews) = 2
    /\ reviews[1].flashcard_id = reviews[2].flashcard_id
    /\ reviews[1].reviewed_at <= reviews[2].reviewed_at
    /\ Reviewed

\* C19: a passing review (quality 3..5) of a card with repetitions >= 2,
\* ease factor >= 1.3 and interval >= 1 day stores an interval that is not
\* smaller than the interval the card had; so does a passing review of a
\* card with repetitions 0 or 1 and the interval of 1 day that a new card,
\* a failed review and a first passing review leave.
C19_GrowthMonotone ==
    (/\ ReviewedValid
     /\ response.call.quality >= 3
     /\ response.call.ease_factor >= 130
     /\ \/ response.call.repetitions >= 2 /\ response.call.interval >= 1
        \/ response.call.repetitions < 2 /\ response.call.interval = 1)
        => /\ response.call.ret.new_interval >= response.call.interval
           /\ cards[response.flashcard_id].interval >= response.call.interval

\* C19 witness: a card at the ease floor with repetitions 2 and an interval
\* of several days has passed with the lowest passing rating, which lowers
\* the ease factor no further, and its interval has grown.
C19_Witness ==
    /\ ReviewedValid
    /\ response.call.quality = 3
    /\ response.call.repetitions = 2
    /\ response.call.ease_factor = 130
    /\ response.call.interval = 6
    /\ cards[response.flashcard_id].interval > 6

\* quality of the most recent review record of the card
LastQuality(id) ==
    LET last == CHOOSE i \in DOMAIN reviews :
                    /\ reviews[i].flashcard_id = id
                    /\ \A j \in DOMAIN reviews :
                          reviews[j].flashcard_id = id => j <= i
    IN  reviews[last].quality

\* C20 (as claimed): a card with repetitions 0 has no review record with
\* quality >= 3 anywhere in its history.
C20_NeverPassed ==
    \A id \in DOMAIN cards :
        cards[id].repetitions = 0 =>
            ~ \E i \in DOMAIN reviews :
                  /\ reviews[i].flashcard_id = id
                  /\ reviews[i].quality >= 3

\* C20 (amended): a card has repetitions 0 exactly when it has never been
\* reviewed or its most recent review had quality < 3; passing reviews
\* before that failure may be in its history.
C20_NoPassSinceLastFail ==
    \A id \in DOMAIN cards :
        cards[id].repetitions = 0
            <=> (~HasReview(id) \/ LastQuality(id) < 3)

\* C20 witness: a card that passed a review and then failed one has
\* repetitions 0.
C20_Witness ==
    \E id \in DOMAIN cards :
        /\ cards[id].repetitions = 0
        /\ Len(reviews) = 2
        /\ reviews[1].flashcard_id = id /\ reviews[1].quality >= 3
        /\ reviews[2].flashcard_id = id /\ reviews[2].quality < 3

\* the positions of the card's records in the review log
RecordsIdx(id) == { i \in DOMAIN reviews : reviews[i].flashcard_id = id }

\* the number of the card's records after its most recent record with
\* quality < 3 (all of its records if it has none)
TrailingPasses(id) ==
    LET fails == { i \in RecordsIdx(id) : reviews[i].quality < 3 }
    IN  Cardinality({ i \in RecordsIdx(id) : \A f \in fails : f < i })

\* C21: the repetitions of every card are the number of passing reviews
\* (quality >= 3) recorded for it since its most recent failing review, or
\* since its creation if it never failed.
C21_RepetitionsCountPasses ==
    \A id \in DOMAIN cards : cards[id].repetitions = TrailingPasses(id)

\* C21 witness: a card with two recorded passing reviews in a row has
\* repetitions 2.
C21_Witness ==
    \E id \in DOMAIN cards :
        /\ cards[id].repetitions = 2
        /\ Len(reviews) = 2
        /\ reviews[1].flashcard_id = id /\ reviews[1].quality >= 3
        /\ reviews[2].flashcard_id = id /\ reviews[2].quality >= 3

\* C22: no step removes a card, and a step changes the schedule of a card
\* only if it is a completed review of that very card; the due query, the
\* statistics, a review rejected with 400 and a review of an unknown card
\* leave every schedule as it was.
C22_OnlyReviewWrites ==
    [][ /\ DOMAIN cards \subseteq DOMAIN cards'
        /\ \A id \in DOMAIN cards :
              cards'[id] # cards[id] =>
                  /\ response'.op \in {"update_flashcard_review",
                                       "review_flashcard"}
                  /\ response'.error = "none"
                  /\ response'.flashcard_id = id
        /\ response'.op \in {"get_due_flashcards", "get_study_statistics"}
              => cards' = cards
        /\ (/\ response'.op \in {"update_flashcard_review", "review_flashcard"}
            /\ response'.error # "none") => cards' = cards
      ]_vars

\* C22 witness: with two cards stored, one reviewed and the other not, the
\* due query has answered and the unreviewed card still has the schedule of
\* a new card.
C22_Witness ==
    /\ response.op = "get_due_flashcards"
    /\ Len(cards) = 2
    /\ Len(reviews) = 1
    /\ \E id \in DOMAIN cards :
          /\ ~HasReview(id)
          /\ cards[id] = NewFlashcard(cards[id].user_id, 0)

\* the qualities of the card's records, in the order of the log
RECURSIVE QualitiesOf(_, _)
QualitiesOf(log, id) ==
    IF log = << >> THEN << >>
    ELSE IF Head(log).flashcard_id = id
         THEN << Head(log).quality >> \o QualitiesOf(Tail(log), id)
         ELSE QualitiesOf(Tail(log), id)

\* the schedule that reviews with the qualities qs, applied one after the
\* other, give a card with the schedule sched
RECURSIVE Replay(_, _)
Replay(qs, sched) ==
    IF qs = << >> THEN sched
    ELSE LET ret == CalculateNextReview(Head(qs), sched.repetitions,
                        sched.ease_factor, sched.interval, 0)
         IN  Replay(Tail(qs), [ repetitions |-> ret.new_repetitions,
                                ease_factor |-> ret.new_ease_factor,
                                interval    |-> ret.new_interval ])

NewCardsAreDue ==
    \A id \in DOMAIN cards :
        ~HasReview(id) =>
            /\ cards[id].ease_factor = 250
            /\ cards[id].repetitions = 0
            /\ cards[id].interval \in {0, 1}
            /\ \A s \in QueryDueCards(cards[id].user_id, now) :
                  \E i \in DOMAIN s : s[i] = id

\* C24: from its creation until its first review, at every time, a card
\* has the schedule of a new card and is among its owner's due cards; and
\* every answer of the due endpoint with fewer than 20 cards holds every
\* card of the user that has no review record.
C24_NewCardDue ==
    /\ []NewCardsAreDue
    /\ [][ (/\ response'.op = "get_due_flashcards"
            /\ UNCHANGED <<cards, reviews, now>>
            /\ Len(response'.ids) < 20)
              => \A id \in DOMAIN cards :
                    (~HasReview(id) /\ cards[id].user_id = response'.user_id)
                        => \E i \in DOMAIN response'.ids :
                              response'.ids[i] = id
       ]_vars

\* C24 witness: a card created after time 0 and not reviewed since is
\* returned by the due endpoint at a later time, next to a reviewed card.
C24_Witness ==
    /\ response.op = "get_due_flashcards"
    /\ response.utcnow = now
    /\ \E id \in DOMAIN cards :
          /\ ~HasReview(id)
          /\ cards[id].next_review > 0
          /\ cards[id].next_review < now
          /\ \E i \in DOMAIN response.ids : response.ids[i] = id
    /\ \E id \in DOMAIN cards : HasReview(id)

\* C25: a call of the review endpoint with a rating below 0 or above 5 is
\* answered 400 and leaves the cards and the review log as they were; a
\* call with a rating in 0..5 for a stored card is answered 200, stores the
\* computed schedule and appends one record with that rating.
C25_EndpointValidatesQuality ==
    [][ \A id \in CardIds : \A q \in AnyQuality :
          ReviewFlashcard(id, q) =>
              IF q < 0 \/ q > 5
              THEN /\ response'.status = 400
                   /\ UNCHANGED <<cards, reviews>>
              ELSE id \in DOMAIN cards =>
                      /\ response'.status = 200
                      /\ Len(reviews') = Len(reviews) + 1
                      /\ reviews'[Len(reviews')].flashcard_id = id
                      /\ reviews'[Len(reviews')].quality = q
                      /\ cards'[id].repetitions
                             = (IF q < 3 THEN 0 ELSE cards[id].repetitions + 1)
      ]_vars

\* C25 witness: the endpoint has answered 400 while a card and a recorded
\* review of it are stored.
C25_Witness ==
    /\ response.op = "review_flashcard"
    /\ response.status = 400
    /\ Len(reviews) = 1
    /\ reviews[1].flashcard_id \in DOMAIN cards

\* the calendar days of the sessions logged for a user and subject, in the
\* order of the log
RECURSIVE SessionDays(_, _)
SessionDays(log, key) ==
    IF log = << >> THEN << >>
    ELSE IF <<Head(log).user_id, Head(log).subject>> = key
         THEN << Date(Head(log).ended_at) >> \o SessionDays(Tail(log), key)
         ELSE SessionDays(Tail(log), key)

\* the streak the claim gives after sessions on the days ds: 1 after the
\* first; then one more when the session before was on the preceding day,
\* 1 when it was earlier, unchanged when it was on the same day
RECURSIVE ClaimedStreak(_)
ClaimedStreak(ds) ==
    IF Len(ds) = 1 THEN 1
    ELSE LET before == SubSeq(ds, 1, Len(ds) - 1)
             prev == ds[Len(ds) - 1]
             day == ds[Len(ds)]
         IN  IF prev = day - 1 THEN ClaimedStreak(before) + 1
             ELSE IF prev < day - 1 THEN 1
             ELSE ClaimedStreak(before)

\* C26 (as claimed): the streak of every progress row is the one the dates
\* of the logged sessions give: 1 after the first session, incremented by a
\* session on the day after the previous one, reset to 1 after a gap and
\* unchanged by a second session on the same day.
C26_StreakFromPreviousSession ==
    \A key \in DOMAIN user_progress :
        user_progress[key].study_streak
            = ClaimedStreak(SessionDays(study_sessions, key))

\* C27: a card with repetitions 0 has an interval of at most 1 day; so no
\* card has both repetitions 0 and an interval above 21 days, and the cards
\* that are neither are not fewer than none.
C27_NewNotMastered ==
    /\ \A id \in DOMAIN cards :
          cards[id].repetitions = 0 => cards[id].interval <= 1
    /\ LET new_count == Cardinality({ id \in DOMAIN cards :
                                        cards[id].repetitions = 0 })
           mastered_count == Cardinality({ id \in DOMAIN cards :
                                             cards[id].interval > 21 })
       IN  /\ { id \in DOMAIN cards : cards[id].repetitions = 0 }
                 \cap { id \in DOMAIN cards : cards[id].interval > 21 } = {}
           /\ Len(cards) - new_count - mastered_count >= 0

\* C27 witness: a card that had reached an interval above 21 days has
\* failed a review and has repetitions 0 and interval 1.
C27_Witness ==
    /\ Reviewed
    /\ response.call.interval > 21
    /\ response.call.quality < 3
    /\ cards[response.flashcard_id].repetitions = 0
    /\ cards[response.flashcard_id].interval = 1

\* C28: after every review the stored interval is at least 1 day, and the
\* card, until it is reviewed again, is in no answer of the due query at
\* the time the review read the clock nor at any time less than one full
\* day after it.
C28_NotDueAfterReview ==
    /\ \A id \in DOMAIN cards : HasReview(id) => cards[id].interval >= 1
    /\ Reviewed =>
          LET id == response.flashcard_id IN
          /\ response.call.ret.new_interval >= 1
          /\ \A t \in 0..(MaxTime + TicksPerDay) :
                t < response.call.utcnow + TicksPerDay =>
                    /\ ~DueFilter(id, cards[id].user_id, t)
                    /\ \A s \in QueryDueCards(cards[id].user_id, t) :
                          \A i \in DOMAIN s : s[i] # id

\* C28 witness: a card has failed a review after an interval of several
\* days and is due exactly one day after the review, not before.
C28_Witness ==
    /\ Reviewed
    /\ response.call.quality < 3
    /\ response.call.interval > 1
    /\ cards[response.flashcard_id].next_review
           = response.call.utcnow + TicksPerDay
    /\ DueFilter(response.flashcard_id, 1, response.call.utcnow + TicksPerDay)

\* C30: a card with an interval above 21 days has repetitions >= 3, as
\* many as the passing reviews recorded since its last failure (a card with
\* fewer repetitions has an interval of 1 or 6 days); and a failing review
\* of a card leaves it with an interval of at most 21 days.
C30_MasteredAfterThreePasses ==
    /\ \A id \in DOMAIN cards :
          cards[id].interval > 21 =>
              /\ cards[id].repetitions >= 3
              /\ TrailingPasses(id) >= 3
    /\ \A id \in DOMAIN cards :
          cards[id].repetitions < 3 => cards[id].interval \in {1, 6}
    /\ (Reviewed /\ response.call.quality < 3) =>
          cards[response.flashcard_id].interval <= 21

\* C30 witness: a card has an interval above 21 days after passing reviews
\* in a row.
C30_Witness ==
    \E id \in DOMAIN cards :
        /\ cards[id].interval > 21
        /\ cards[id].repetitions >= 3
        /\ cards[id].repetitions = Len(reviews)

\* C29: every stored review date is set and lies no further ahead than the
\* card's interval; while the clock keeps advancing, a card that is not
\* reviewed again is eventually in the due set of its owner; and a card in
\* the due set leaves it only by a review of that card.
C29_EventuallyDue ==
    /\ [](\A id \in DOMAIN cards :
            /\ cards[id].next_review # NULL
            /\ cards[id].next_review <= now + Days(cards[id].interval))
    /\ \A id \in 1..MaxCards : \A n \in 0..MaxSeqReviews :
          (id \in DOMAIN cards /\ RecordsOf(reviews, id) = n)
              ~> (id \in DOMAIN cards
                    /\ (InDueSet(id) \/ RecordsOf(reviews, id) > n))
    /\ [][\A id \in DOMAIN cards :
            (InDueSet(id) /\ ~InDueSet(id)') =>
                RecordsOf(reviews', id) = RecordsOf(reviews, id) + 1]_vars

\* a card reviewed twice, with the six-day interval, has come due again
\* after the calls have ended
C29_Witness ==
    \E id \in DOMAIN cards :
        /\ RecordsOf(reviews, id) = 2
        /\ cards[id].interval = SecondInterval
        /\ now > MaxTime
        /\ cards[id].next_review = now
        /\ InDueSet(id)

====
